---- MODULE Spec2Model ----
(***************************************************************************)
(* FuelTrack Pro: the Dashboard component's stores (transactions,         *)
(* customers, fuelStock, fuelPrices) and the handlers that mutate them.   *)
(*                                                                         *)
(* Numbers.  The program computes with JavaScript numbers; the model      *)
(* computes with exact integers: litres are whole litres and money is in  *)
(* hundredths of a rupee, so 102.5 is 10250 and 95.8 is 9580.             *)
(*                                                                         *)
(* Optional fields of a Transaction (fuelType?, quantity?, customerId?,   *)
(* customerName?, description?) are sequences of length 0 or 1.           *)
(*                                                                         *)
(* uuidv4() is a counter, one for the transactions (nextTxId) and one for *)
(* the customers (nextCustomerId).  Date.now() is a clock (now) that has  *)
(* moved on by the time of the next handler that reads it; todayStart is  *)
(* the reading of that clock at the last local midnight.                  *)
(*                                                                         *)
(* memo is what React.useMemo holds for the aggregates: the values of the *)
(* callback's constants at its last run.                                  *)
(*                                                                         *)
(* localStorage holds, for each of the four keys, no item, an item that   *)
(* JSON.parse rejects, or the JSON of a value; failing is the set of keys *)
(* for which window.localStorage.setItem throws during the next handler.  *)
(***************************************************************************)
EXTENDS Integers, Sequences, FiniteSets, TLC

VARIABLES transactions, customers, fuelStock, fuelPrices, nextTxId, nextCustomerId,
          now, todayStart, memo, localStorage, failing, last, pre

vars == <<transactions, customers, fuelStock, fuelPrices, nextTxId, nextCustomerId,
          now, todayStart, memo, localStorage, failing, last, pre>>

ids == <<nextTxId, nextCustomerId>>

stores == <<transactions, customers, fuelStock, fuelPrices>>

(***************************************************************************)
(* Bounds of the model.                                                    *)
(***************************************************************************)
MaxTx == 3

(***************************************************************************)
(* Program constants.                                                      *)
(***************************************************************************)
DefaultPetrolPrice == 10250

DefaultDieselPrice == 9580

MinPrice == 1

MinStockQuantity == 1

FuelTypes == {"petrol", "diesel"}

(***************************************************************************)
(* Inputs of the forms: the valid ones and one of each kind the schemas    *)
(* reject.  A sale is <<fuelType, quantity, isCredit, customerName>>.      *)
(***************************************************************************)
NoFuel == "none"

QtyInputs == {0, 1}

CustomerNames == {"Ali", "ALI", "Bob"}

SaleInputs ==
  {<<ft, 1, FALSE, "">> : ft \in FuelTypes}
    \cup {<<x[1], 1, TRUE, x[2]>> : x \in FuelTypes \X CustomerNames}
    \cup {<<NoFuel, 1, FALSE, "">>, <<"petrol", 0, FALSE, "">>,
          <<"diesel", 1, TRUE, "">>, <<"petrol", 1, TRUE, " ">>}

StockInputs == (FuelTypes \X {1}) \cup {<<NoFuel, 1>>, <<"diesel", 0>>}

RenameInputs == {"", "ali"}

PriceInputs == {<<10000, 10000>>, <<0, 10000>>, <<10000, 0>>}

ExpenseInputs == {<<"rent", 500>>, <<"", 500>>, <<"rent", 0>>}

EditInputs == {<<"salary", 700>>, <<"", 700>>, <<"salary", 0>>}

(***************************************************************************)
(* Optional values and JavaScript truthiness.                              *)
(***************************************************************************)
None == <<>>

Some(x) == <<x>>

TruthyNum(o) == o # None /\ o[1] # 0

TruthyStr(o) == o # None /\ o[1] # ""

(***************************************************************************)
(* String.prototype.toLowerCase and trim on the names the model uses.      *)
(***************************************************************************)
toLowerCase(s) ==
  CASE s = "Ali" -> "ali"
    [] s = "ALI" -> "ali"
    [] s = "Bob" -> "bob"
    [] OTHER -> s

trim(s) == IF s = " " THEN "" ELSE s

(***************************************************************************)
(* Array.prototype.reduce with +, and the least index of a set (find).      *)
(***************************************************************************)
RECURSIVE SumSeq(_)
SumSeq(s) == IF s = <<>> THEN 0 ELSE Head(s) + SumSeq(Tail(s))

Min(S) == CHOOSE x \in S : \A y \in S : x <= y

(***************************************************************************)
(* The record of the last handler call: its name and the message it        *)
(* reported (a toast or a form error).  `pre` is the stock and the         *)
(* customers as they were before the last recording operation, with the    *)
(* ids of the transactions that operation created; it is dropped by the    *)
(* next operation other than the deletion of one of those transactions.    *)
(***************************************************************************)
Call(op, msg) == [op |-> op, msg |-> msg]

NoSnapshot == [taken |-> FALSE, undone |-> FALSE, stock |-> [f \in FuelTypes |-> 0],
               customers |-> <<>>, created |-> {}]

Snapshot(created) == [taken |-> TRUE, undone |-> FALSE, stock |-> fuelStock,
                      customers |-> customers, created |-> created]

(***************************************************************************)
(* useLocalStorage.  The initial stored value of a key is the parsed item, *)
(* or the initial value when there is no item or JSON.parse throws.        *)
(* setValue gives the component its new value and then writes the item;    *)
(* a throw of the write is caught and logged, after the value was set.     *)
(***************************************************************************)
Keys == {"transactions", "customers", "fuelStock", "fuelPrices"}

NoItem == <<>>

Unreadable == <<"unreadable">>

Json(value) == <<"json", value>>

Readable(item) == Len(item) = 2

initialStoredValue(item, initialValue) == IF Readable(item) THEN item[2] ELSE initialValue

setValue_writeFirst(key, stored, valueToStore) ==
  IF key \in failing THEN stored ELSE valueToStore

setValue(key, stored, valueToStore) == valueToStore

(***************************************************************************)
(* The aggregates of the dashboard (the callback of React.useMemo): the    *)
(* totals of the transactions since the start of the day `start`, and the  *)
(* sum of the customers' balances.                                         *)
(***************************************************************************)
amountsOf(s) == SumSeq([j \in 1..Len(s) |-> s[j].amount])

creditDue(custs) == SumSeq([j \in 1..Len(custs) |-> custs[j].balance])

todaysTransactions(txs, start) == SelectSeq(txs, LAMBDA t : t.timestamp >= start)

totalSales(txs, start) ==
  amountsOf(SelectSeq(todaysTransactions(txs, start), LAMBDA t : t.type = "sale"))

todaysCreditSales(txs, start) ==
  amountsOf(SelectSeq(todaysTransactions(txs, start),
                      LAMBDA t : t.type = "sale" /\ t.isCredit))

totalExpenses(txs, start) ==
  amountsOf(SelectSeq(todaysTransactions(txs, start), LAMBDA t : t.type = "expense"))

aggregates_currentPrices(txs, custs, start) ==
  LET sales == SelectSeq(todaysTransactions(txs, start), LAMBDA t : t.type = "sale")
      revalued == SumSeq([j \in 1..Len(sales) |->
                            sales[j].quantity[1] * fuelPrices[sales[j].fuelType[1]]])
  IN  [todayStart |-> start,
       totalSales |-> revalued,
       todaysCreditSales |-> todaysCreditSales(txs, start),
       totalExpenses |-> totalExpenses(txs, start),
       creditDue |-> creditDue(custs),
       netRevenue |-> revalued - todaysCreditSales(txs, start) - totalExpenses(txs, start)]

aggregates_creditCounted(txs, custs, start) ==
  [todayStart |-> start,
   totalSales |-> totalSales(txs, start),
   todaysCreditSales |-> todaysCreditSales(txs, start),
   totalExpenses |-> totalExpenses(txs, start),
   creditDue |-> creditDue(custs),
   netRevenue |-> totalSales(txs, start) - totalExpenses(txs, start)]

aggregates_todaysCredit(txs, custs, start) ==
  [todayStart |-> start,
   totalSales |-> totalSales(txs, start),
   todaysCreditSales |-> todaysCreditSales(txs, start),
   totalExpenses |-> totalExpenses(txs, start),
   creditDue |-> todaysCreditSales(txs, start),
   netRevenue |-> totalSales(txs, start) - todaysCreditSales(txs, start)
                    - totalExpenses(txs, start)]

aggregates(txs, custs, start) ==
  [todayStart |-> start,
   totalSales |-> totalSales(txs, start),
   todaysCreditSales |-> todaysCreditSales(txs, start),
   totalExpenses |-> totalExpenses(txs, start),
   creditDue |-> creditDue(custs),
   netRevenue |-> totalSales(txs, start) - todaysCreditSales(txs, start)
                    - totalExpenses(txs, start)]

(***************************************************************************)
(* The render that follows a handler: useMemo runs its callback again when *)
(* the handler stored a transactions or a customers array, and keeps what  *)
(* it holds otherwise.  updateCustomerName and updateTransaction store an  *)
(* array on every call, the other handlers only one that differs.          *)
(***************************************************************************)
Render ==
  /\ todayStart' = todayStart
  /\ memo' = IF \/ transactions' # transactions
                \/ customers' # customers
                \/ last'.op \in {"updateCustomerName", "updateTransaction"}
             THEN aggregates(transactions', customers', todayStart)
             ELSE memo

(***************************************************************************)
(* What the handler's setValue calls leave in localStorage: the JSON of    *)
(* the new value under each key that was set and whose write did not       *)
(* throw: the keys whose value the handler changed, and those a handler    *)
(* sets on every call whether the value changes or not.                    *)
(***************************************************************************)
StoreOf(k) ==
  CASE k = "transactions" -> transactions
    [] k = "customers" -> customers
    [] k = "fuelStock" -> fuelStock
    [] k = "fuelPrices" -> fuelPrices

NewStoreOf(k) ==
  CASE k = "transactions" -> transactions'
    [] k = "customers" -> customers'
    [] k = "fuelStock" -> fuelStock'
    [] k = "fuelPrices" -> fuelPrices'

setCalls(op) ==
  CASE op \in {"updateCustomerName", "deleteCustomer"} -> {"customers", "transactions"}
    [] op = "updateTransaction" -> {"transactions"}
    [] op = "updateStock" -> {"fuelStock"}
    [] op = "updatePrices" -> {"fuelPrices"}
    [] OTHER -> {}

Persist ==
  localStorage' = [k \in Keys |->
                     IF /\ k \notin failing
                        /\ (NewStoreOf(k) # StoreOf(k) \/ k \in setCalls(last'.op))
                     THEN Json(NewStoreOf(k))
                     ELSE localStorage[k]]

Commit == Render /\ Persist /\ failing' = {}

(***************************************************************************)
(* Initial state: nothing stored, every document at its default.           *)
(***************************************************************************)
InitialStock == [f \in FuelTypes |-> 0]

InitialPrices == [f \in FuelTypes |->
                    IF f = "petrol" THEN DefaultPetrolPrice ELSE DefaultDieselPrice]

(***************************************************************************)
(* The four documents the Dashboard mounts with, each from its own item    *)
(* of localStorage.                                                        *)
(***************************************************************************)
documents_allOrNothing(ls) ==
  IF \A k \in Keys : Readable(ls[k])
  THEN [k \in Keys |-> ls[k][2]]
  ELSE [k \in Keys |->
          CASE k = "transactions" -> <<>>
            [] k = "customers" -> <<>>
            [] k = "fuelStock" -> InitialStock
            [] k = "fuelPrices" -> InitialPrices]

documents(ls) ==
  [k \in Keys |->
     CASE k = "transactions" -> initialStoredValue(ls[k], <<>>)
       [] k = "customers" -> initialStoredValue(ls[k], <<>>)
       [] k = "fuelStock" -> initialStoredValue(ls[k], InitialStock)
       [] k = "fuelPrices" -> initialStoredValue(ls[k], InitialPrices)]

NothingStored == [k \in Keys |-> NoItem]

Mount(ls) ==
  /\ localStorage = ls
  /\ transactions = documents(ls)["transactions"]
  /\ customers = documents(ls)["customers"]
  /\ fuelStock = documents(ls)["fuelStock"]
  /\ fuelPrices = documents(ls)["fuelPrices"]
  /\ nextTxId = 1
  /\ nextCustomerId = 1
  /\ now = 0
  /\ todayStart = 0
  /\ memo = aggregates(documents(ls)["transactions"], documents(ls)["customers"], 0)
  /\ last = Call("init", "")
  /\ pre = NoSnapshot

Init == Mount(NothingStored) /\ failing = {}

(***************************************************************************)
(* addTransaction: the new record, with a fresh id and the current time,   *)
(* in front of the stored value the handler's render captured.             *)
(***************************************************************************)
Tx(id, type, ft, qty, amount, isCredit, cid, cname, desc) ==
  [id |-> id, type |-> type, fuelType |-> ft, quantity |-> qty,
   amount |-> amount, isCredit |-> isCredit, customerId |-> cid,
   customerName |-> cname, description |-> desc, timestamp |-> now]

(***************************************************************************)
(* addTransaction with the new record behind the stored value.             *)
(***************************************************************************)
addTransaction_append(storedValue, tx) == storedValue \o <<tx>>

addTransaction(storedValue, tx) == <<tx>> \o storedValue

(***************************************************************************)
(* saleSchema: a fuel type is selected, the quantity is positive and a     *)
(* credit sale names a customer.                                           *)
(***************************************************************************)
saleSchema_noTrim(ft, q, isCredit, name) ==
  /\ ft \in FuelTypes
  /\ q > 0
  /\ (~isCredit \/ (isCredit /\ name # ""))

saleSchema(ft, q, isCredit, name) ==
  /\ ft \in FuelTypes
  /\ q > 0
  /\ (~isCredit \/ (isCredit /\ name # "" /\ trim(name) # ""))

(***************************************************************************)
(* customers.find(c => c.name.toLowerCase() === name.toLowerCase()): the   *)
(* index of the first match, 0 when there is none.                         *)
(***************************************************************************)
NameMatches_caseSensitive(name) ==
  {i \in 1..Len(customers) : customers[i].name = name}

NameMatches(name) ==
  {i \in 1..Len(customers) : toLowerCase(customers[i].name) = toLowerCase(name)}

(***************************************************************************)
(* The search of onSaleSubmit returning the last customer that matches.    *)
(***************************************************************************)
findByName_latest(name) ==
  IF NameMatches(name) = {}
  THEN 0
  ELSE CHOOSE i \in NameMatches(name) : \A j \in NameMatches(name) : j <= i

findByName(name) == IF NameMatches(name) = {} THEN 0 ELSE Min(NameMatches(name))

findCustomer(customerId) ==
  LET S == {i \in 1..Len(customers) : customers[i].id = customerId}
  IN  IF S = {} THEN 0 ELSE Min(S)

findTransaction(transactionId) ==
  LET S == {i \in 1..Len(transactions) : transactions[i].id = transactionId}
  IN  IF S = {} THEN 0 ELSE Min(S)

(***************************************************************************)
(* The stock check of onSaleSubmit.                                        *)
(***************************************************************************)
NotEnoughStock_offByOne(ft, q) == fuelStock[ft] <= q

NotEnoughStock(ft, q) == fuelStock[ft] < q

(***************************************************************************)
(* The customer list after a credit sale of `amount` under `name`:         *)
(* the first customer matching the name is credited, or a new customer     *)
(* with id `newId` is appended.                                            *)
(***************************************************************************)
creditSale(name, amount, newId) ==
  LET i == findByName(name)
  IN  IF i # 0
      THEN LET customer == [customers[i] EXCEPT !.balance = @ + amount]
           IN  [j \in 1..Len(customers) |->
                  IF customers[j].id = customer.id THEN customer ELSE customers[j]]
      ELSE Append(customers, [id |-> newId, name |-> name, balance |-> amount])

creditSaleId(name, newId) ==
  LET i == findByName(name)
  IN  IF i # 0 THEN customers[i].id ELSE newId

(***************************************************************************)
(* onSaleSubmit with the stock check after setFuelStock.                   *)
(***************************************************************************)
onSaleSubmit_checkAfterStock(ft, q, isCredit, name) ==
  LET price == fuelPrices[ft]
      amount == q * price
      credit == isCredit /\ name # ""
      fresh == credit /\ findByName(name) = 0
  IN  IF fuelStock[ft] < q
      THEN /\ fuelStock' = setValue("fuelStock", fuelStock,
                  [fuelStock EXCEPT ![ft] = @ - q])
           /\ last' = Call("onSaleSubmit", "Not enough stock available.")
           /\ pre' = NoSnapshot
           /\ UNCHANGED <<transactions, customers, fuelPrices, ids, now>>
      ELSE /\ nextTxId <= MaxTx
           /\ fuelStock' = setValue("fuelStock", fuelStock,
                  [fuelStock EXCEPT ![ft] = @ - q])
           /\ customers' = setValue("customers", customers,
                  IF credit THEN creditSale(name, amount, nextCustomerId) ELSE customers)
           /\ transactions' = setValue("transactions", transactions,
                  addTransaction(transactions,
                    Tx(nextTxId, "sale", Some(ft), Some(q), amount, isCredit,
                       IF credit THEN Some(creditSaleId(name, nextCustomerId)) ELSE None,
                       Some(name), None)))
           /\ nextTxId' = nextTxId + 1
           /\ now' = now + 1
           /\ nextCustomerId' = IF fresh THEN nextCustomerId + 1 ELSE nextCustomerId
           /\ last' = Call("onSaleSubmit", "Sale Recorded")
           /\ pre' = Snapshot({nextTxId})
           /\ UNCHANGED <<fuelPrices>>

(***************************************************************************)
(* onSaleSubmit, called by saleForm.handleSubmit once saleSchema passes.   *)
(***************************************************************************)
onSaleSubmit(ft, q, isCredit, name) ==
  LET price == fuelPrices[ft]
      amount == q * price
      credit == isCredit /\ name # ""
      fresh == credit /\ findByName(name) = 0
  IN  IF NotEnoughStock(ft, q)
      THEN /\ last' = Call("onSaleSubmit", "Not enough stock available.")
           /\ pre' = NoSnapshot
           /\ UNCHANGED <<stores, ids, now>>
      ELSE /\ nextTxId <= MaxTx
           /\ fuelStock' = setValue("fuelStock", fuelStock,
                  [fuelStock EXCEPT ![ft] = @ - q])
           /\ customers' = setValue("customers", customers,
                  IF credit THEN creditSale(name, amount, nextCustomerId) ELSE customers)
           /\ transactions' = setValue("transactions", transactions,
                  addTransaction(transactions,
                    Tx(nextTxId, "sale", Some(ft), Some(q), amount, isCredit,
                       IF credit THEN Some(creditSaleId(name, nextCustomerId)) ELSE None,
                       Some(name), None)))
           /\ nextTxId' = nextTxId + 1
           /\ now' = now + 1
           /\ nextCustomerId' = IF fresh THEN nextCustomerId + 1 ELSE nextCustomerId
           /\ last' = Call("onSaleSubmit", "Sale Recorded")
           /\ pre' = Snapshot({nextTxId})
           /\ UNCHANGED <<fuelPrices>>

SubmitSale(ft, q, isCredit, name) ==
  IF saleSchema(ft, q, isCredit, name)
  THEN onSaleSubmit(ft, q, isCredit, name)
  ELSE /\ last' = Call("handleSubmit", "ValidationError")
       /\ pre' = NoSnapshot
       /\ UNCHANGED <<stores, ids, now>>

(***************************************************************************)
(* onExpenseSubmit, behind expenseSchema.                                  *)
(***************************************************************************)
expenseSchema(description, amount) == description # "" /\ amount > 0

onExpenseSubmit(description, amount) ==
  /\ nextTxId <= MaxTx
  /\ transactions' = setValue("transactions", transactions, addTransaction(transactions,
       Tx(nextTxId, "expense", None, None, amount, FALSE, None, None, Some(description))))
  /\ nextTxId' = nextTxId + 1
  /\ now' = now + 1
  /\ last' = Call("onExpenseSubmit", "Expense Logged")
  /\ pre' = Snapshot({nextTxId})
  /\ UNCHANGED <<customers, fuelStock, fuelPrices, nextCustomerId>>

SubmitExpense(description, amount) ==
  IF expenseSchema(description, amount)
  THEN onExpenseSubmit(description, amount)
  ELSE /\ last' = Call("handleSubmit", "ValidationError")
       /\ pre' = NoSnapshot
       /\ UNCHANGED <<stores, ids, now>>

(***************************************************************************)
(* addStock, called by onStockSubmit behind stockSchema.                   *)
(***************************************************************************)
stockSchema(ft, q) == ft \in FuelTypes /\ q >= MinStockQuantity

addStockDescription(ft, q) == "Added " \o ToString(q) \o "L of " \o ft

addStock(ft, q) ==
  /\ nextTxId <= MaxTx
  /\ fuelStock' = setValue("fuelStock", fuelStock, [fuelStock EXCEPT ![ft] = @ + q])
  /\ transactions' = setValue("transactions", transactions, addTransaction(transactions,
       Tx(nextTxId, "stock", Some(ft), Some(q), 0, FALSE, None, None,
          Some(addStockDescription(ft, q)))))
  /\ nextTxId' = nextTxId + 1
  /\ now' = now + 1
  /\ last' = Call("addStock", "New stock has been added.")
  /\ pre' = Snapshot({nextTxId})
  /\ UNCHANGED <<customers, fuelPrices, nextCustomerId>>

onStockSubmit(ft, q) ==
  IF stockSchema(ft, q)
  THEN addStock(ft, q)
  ELSE /\ last' = Call("handleSubmit", "ValidationError")
       /\ pre' = NoSnapshot
       /\ UNCHANGED <<stores, ids, now>>

(***************************************************************************)
(* updateStock.  Each addTransaction goes through useLocalStorage's        *)
(* setValue, which applies the updater to the stored value captured by     *)
(* the handler's render: the second call starts again from the log the     *)
(* handler was created with, not from the result of the first.             *)
(***************************************************************************)
adjustDescription(v) == "Stock adjusted to " \o ToString(v) \o "L"

stockTx(id, ft, oldStock, newStock) ==
  Tx(id, "stock", Some(ft), Some(newStock[ft] - oldStock[ft]), 0, FALSE, None, None,
     Some(adjustDescription(newStock[ft])))

updateStockLog(storedValue, oldStock, newStock, petrolId, dieselId) ==
  LET afterPetrol ==
        IF newStock["petrol"] # oldStock["petrol"]
        THEN addTransaction(storedValue, stockTx(petrolId, "petrol", oldStock, newStock))
        ELSE storedValue
  IN  IF newStock["diesel"] # oldStock["diesel"]
      THEN addTransaction(storedValue, stockTx(dieselId, "diesel", oldStock, newStock))
      ELSE afterPetrol

updateStock(newPetrol, newDiesel) ==
  LET newStock == [f \in FuelTypes |-> IF f = "petrol" THEN newPetrol ELSE newDiesel]
      oldStock == fuelStock
      petrolChanged == newStock["petrol"] # oldStock["petrol"]
      dieselChanged == newStock["diesel"] # oldStock["diesel"]
      petrolId == nextTxId
      dieselId == IF petrolChanged THEN nextTxId + 1 ELSE nextTxId
      created == (IF petrolChanged THEN {petrolId} ELSE {})
                   \cup (IF dieselChanged THEN {dieselId} ELSE {})
  IN  /\ nextTxId + Cardinality(created) - 1 <= MaxTx
      /\ fuelStock' = setValue("fuelStock", fuelStock, newStock)
      /\ transactions' = setValue("transactions", transactions,
             updateStockLog(transactions, oldStock, newStock, petrolId, dieselId))
      /\ nextTxId' = nextTxId + Cardinality(created)
      /\ now' = IF created = {} THEN now ELSE now + 1
      /\ last' = Call("updateStock", "")
      /\ pre' = IF created = {} THEN NoSnapshot ELSE Snapshot(created)
      /\ UNCHANGED <<customers, fuelPrices, nextCustomerId>>

(***************************************************************************)
(* priceSchema with the minimum on the petrol price only.                  *)
(***************************************************************************)
priceSchema_petrolOnly(petrol, diesel) == petrol >= MinPrice

(***************************************************************************)
(* updatePrices, called by onPriceSubmit behind priceSchema.               *)
(***************************************************************************)
priceSchema(petrol, diesel) == petrol >= MinPrice /\ diesel >= MinPrice

(***************************************************************************)
(* updatePrices with the logged sales priced anew.                         *)
(***************************************************************************)
updatePrices_repricing(petrol, diesel) ==
  LET newPrices == [f \in FuelTypes |-> IF f = "petrol" THEN petrol ELSE diesel]
  IN  /\ fuelPrices' = setValue("fuelPrices", fuelPrices, newPrices)
      /\ transactions' = setValue("transactions", transactions,
             [j \in 1..Len(transactions) |->
                IF transactions[j].type = "sale"
                THEN [transactions[j] EXCEPT
                        !.amount = transactions[j].quantity[1]
                                     * newPrices[transactions[j].fuelType[1]]]
                ELSE transactions[j]])
      /\ last' = Call("updatePrices", "Fuel prices have been updated.")
      /\ pre' = NoSnapshot
      /\ UNCHANGED <<customers, fuelStock, ids, now>>

updatePrices(petrol, diesel) ==
  /\ fuelPrices' = setValue("fuelPrices", fuelPrices,
         [f \in FuelTypes |-> IF f = "petrol" THEN petrol ELSE diesel])
  /\ last' = Call("updatePrices", "Fuel prices have been updated.")
  /\ pre' = NoSnapshot
  /\ UNCHANGED <<transactions, customers, fuelStock, ids, now>>

onPriceSubmit(petrol, diesel) ==
  IF priceSchema(petrol, diesel)
  THEN updatePrices(petrol, diesel)
  ELSE /\ last' = Call("handleSubmit", "ValidationError")
       /\ pre' = NoSnapshot
       /\ UNCHANGED <<stores, ids, now>>

(***************************************************************************)
(* recordRepayment: the balance is lowered whatever the amount; a missing  *)
(* customer is passed over in silence.                                     *)
(***************************************************************************)
repay(customerId, amount) ==
  LET i == findCustomer(customerId)
      customer == [customers[i] EXCEPT !.balance = @ - amount]
  IN  [j \in 1..Len(customers) |->
         IF customers[j].id = customerId THEN customer ELSE customers[j]]

recordRepayment(customerId, amount) ==
  LET i == findCustomer(customerId)
  IN  IF i # 0
      THEN /\ nextTxId <= MaxTx
           /\ customers' = setValue("customers", customers, repay(customerId, amount))
           /\ transactions' = setValue("transactions", transactions, addTransaction(transactions,
                Tx(nextTxId, "repayment", None, None, amount, FALSE, Some(customerId),
                   Some(customers[i].name), None)))
           /\ nextTxId' = nextTxId + 1
           /\ now' = now + 1
           /\ last' = Call("recordRepayment", "Repayment recorded")
           /\ pre' = Snapshot({nextTxId})
           /\ UNCHANGED <<fuelStock, fuelPrices, nextCustomerId>>
      ELSE /\ last' = Call("recordRepayment", "")
           /\ pre' = NoSnapshot
           /\ UNCHANGED <<stores, ids, now>>

(***************************************************************************)
(* The credit table lists the customers with a positive balance; its rows  *)
(* open the repayment, rename and delete dialogs.                          *)
(***************************************************************************)
creditCustomers == {i \in 1..Len(customers) : customers[i].balance > 0}

repaymentSchema(amount) == amount > 0

ExceedsBalance(repaymentCustomer, amount) == amount > repaymentCustomer.balance

onRepaymentSubmit(i, amount) ==
  LET repaymentCustomer == customers[i]
  IN  IF ~repaymentSchema(amount)
      THEN /\ last' = Call("handleSubmit", "ValidationError")
           /\ pre' = NoSnapshot
           /\ UNCHANGED <<stores, ids, now>>
      ELSE IF ExceedsBalance(repaymentCustomer, amount)
      THEN /\ last' = Call("onRepaymentSubmit", "Amount cannot exceed balance.")
           /\ pre' = NoSnapshot
           /\ UNCHANGED <<stores, ids, now>>
      ELSE recordRepayment(repaymentCustomer.id, amount)

RepaymentAmounts(balance) == {0, 5000, balance, balance + 1}

(***************************************************************************)
(* updateCustomerName, called by onEditSubmit behind customerNameSchema.   *)
(***************************************************************************)
customerNameSchema(name) == name # ""

updateCustomerName_customersOnly(customerId, newName) ==
  /\ customers' = setValue("customers", customers,
         [j \in 1..Len(customers) |->
            IF customers[j].id = customerId
            THEN [customers[j] EXCEPT !.name = newName]
            ELSE customers[j]])
  /\ last' = Call("updateCustomerName", "Customer name updated.")
  /\ pre' = NoSnapshot
  /\ UNCHANGED <<transactions, fuelStock, fuelPrices, ids, now>>

updateCustomerName(customerId, newName) ==
  /\ customers' = setValue("customers", customers,
         [j \in 1..Len(customers) |->
            IF customers[j].id = customerId
            THEN [customers[j] EXCEPT !.name = newName]
            ELSE customers[j]])
  /\ transactions' = setValue("transactions", transactions,
         [j \in 1..Len(transactions) |->
            IF transactions[j].customerId = Some(customerId)
            THEN [transactions[j] EXCEPT !.customerName = Some(newName)]
            ELSE transactions[j]])
  /\ last' = Call("updateCustomerName", "Customer name updated.")
  /\ pre' = NoSnapshot
  /\ UNCHANGED <<fuelStock, fuelPrices, ids, now>>

onEditSubmit(i, name) ==
  IF customerNameSchema(name)
  THEN updateCustomerName(customers[i].id, name)
  ELSE /\ last' = Call("handleSubmit", "ValidationError")
       /\ pre' = NoSnapshot
       /\ UNCHANGED <<stores, ids, now>>

(***************************************************************************)
(* The unlinking of deleteCustomer with the customerId left in place.      *)
(***************************************************************************)
unlink_nameOnly(t, customerId) ==
  IF t.customerId = Some(customerId)
  THEN [t EXCEPT !.customerName = None]
  ELSE t

(***************************************************************************)
(* deleteCustomer, called by onDeleteConfirm: the customer goes, its       *)
(* transactions stay and lose customerId and customerName.                 *)
(***************************************************************************)
unlink_keepName(t, customerId) ==
  IF t.customerId = Some(customerId)
  THEN [t EXCEPT !.customerId = None]
  ELSE t

unlink(t, customerId) ==
  IF t.customerId = Some(customerId)
  THEN [t EXCEPT !.customerId = None, !.customerName = None]
  ELSE t

deleteCustomer(customerId) ==
  /\ customers' = setValue("customers", customers,
         SelectSeq(customers, LAMBDA c : c.id # customerId))
  /\ transactions' = setValue("transactions", transactions,
         [j \in 1..Len(transactions) |-> unlink(transactions[j], customerId)])
  /\ last' = Call("deleteCustomer", "Customer deleted.")
  /\ pre' = NoSnapshot
  /\ UNCHANGED <<fuelStock, fuelPrices, ids, now>>

(***************************************************************************)
(* deleteTransaction: the reversal of the transaction's effects, by type,  *)
(* then its removal from the log.                                          *)
(***************************************************************************)
adjustBalance(customerId, delta) ==
  [j \in 1..Len(customers) |->
     IF Some(customers[j].id) = customerId
     THEN [customers[j] EXCEPT !.balance = @ + delta]
     ELSE customers[j]]

stockAfterDelete(t) ==
  CASE t.type = "sale" ->
         IF TruthyStr(t.fuelType) /\ TruthyNum(t.quantity)
         THEN [fuelStock EXCEPT ![t.fuelType[1]] = @ + t.quantity[1]]
         ELSE fuelStock
    [] t.type = "stock" ->
         IF TruthyStr(t.fuelType) /\ TruthyNum(t.quantity)
         THEN [fuelStock EXCEPT ![t.fuelType[1]] = @ - t.quantity[1]]
         ELSE fuelStock
    [] OTHER -> fuelStock

customersAfterDelete_currentPrice(t) ==
  CASE t.type = "sale" ->
         IF t.isCredit /\ t.customerId # None
         THEN adjustBalance(t.customerId, 0 - t.quantity[1] * fuelPrices[t.fuelType[1]])
         ELSE customers
    [] t.type = "repayment" ->
         IF t.customerId # None
         THEN adjustBalance(t.customerId, t.amount)
         ELSE customers
    [] OTHER -> customers

customersAfterDelete_sameSign(t) ==
  CASE t.type = "sale" ->
         IF t.isCredit /\ t.customerId # None
         THEN adjustBalance(t.customerId, 0 - t.amount)
         ELSE customers
    [] t.type = "repayment" ->
         IF t.customerId # None
         THEN adjustBalance(t.customerId, 0 - t.amount)
         ELSE customers
    [] OTHER -> customers

(***************************************************************************)
(* The reversal on the customers with a customer put back on record for a  *)
(* credit sale or a repayment that carries no customerId.                  *)
(***************************************************************************)
customersAfterDelete_recreate(t) ==
  CASE t.type = "sale" ->
         IF t.isCredit
         THEN IF t.customerId # None
              THEN adjustBalance(t.customerId, 0 - t.amount)
              ELSE Append(customers, [id |-> nextCustomerId, name |-> "",
                                      balance |-> 0 - t.amount])
         ELSE customers
    [] t.type = "repayment" ->
         IF t.customerId # None
         THEN adjustBalance(t.customerId, t.amount)
         ELSE Append(customers, [id |-> nextCustomerId, name |-> "",
                                 balance |-> t.amount])
    [] OTHER -> customers

customersAfterDelete(t) ==
  CASE t.type = "sale" ->
         IF t.isCredit /\ t.customerId # None
         THEN adjustBalance(t.customerId, 0 - t.amount)
         ELSE customers
    [] t.type = "repayment" ->
         IF t.customerId # None
         THEN adjustBalance(t.customerId, t.amount)
         ELSE customers
    [] OTHER -> customers

(***************************************************************************)
(* deleteTransaction with the reversal but without the removal from the    *)
(* log.                                                                    *)
(***************************************************************************)
deleteTransaction_keepsEntry(transactionId) ==
  LET i == findTransaction(transactionId)
  IN  IF i = 0
      THEN /\ last' = Call("deleteTransaction", "")
           /\ pre' = IF transactionId \in pre.created THEN pre ELSE NoSnapshot
           /\ UNCHANGED <<stores, ids, now>>
      ELSE /\ fuelStock' = setValue("fuelStock", fuelStock,
                  stockAfterDelete(transactions[i]))
           /\ customers' = setValue("customers", customers,
                  customersAfterDelete(transactions[i]))
           /\ transactions' = setValue("transactions", transactions, transactions)
           /\ last' = Call("deleteTransaction", "Transaction Deleted")
           /\ pre' = IF transactionId \in pre.created
                     THEN [pre EXCEPT !.undone = TRUE]
                     ELSE NoSnapshot
           /\ UNCHANGED <<fuelPrices, ids, now>>

deleteTransaction(transactionId) ==
  LET i == findTransaction(transactionId)
  IN  IF i = 0
      THEN /\ last' = Call("deleteTransaction", "")
           /\ pre' = IF transactionId \in pre.created THEN pre ELSE NoSnapshot
           /\ UNCHANGED <<stores, ids, now>>
      ELSE /\ fuelStock' = setValue("fuelStock", fuelStock,
                  stockAfterDelete(transactions[i]))
           /\ customers' = setValue("customers", customers,
                  customersAfterDelete(transactions[i]))
           /\ transactions' = setValue("transactions", transactions,
                  SelectSeq(transactions, LAMBDA t : t.id # transactionId))
           /\ last' = Call("deleteTransaction", "Transaction Deleted")
           /\ pre' = IF transactionId \in pre.created
                     THEN [pre EXCEPT !.undone = TRUE]
                     ELSE NoSnapshot
           /\ UNCHANGED <<fuelPrices, ids, now>>

(***************************************************************************)
(* updateTransaction, called by handleEditSubmit behind expenseEditSchema  *)
(* for an expense that is still in the log.                                *)
(***************************************************************************)
expenseEditSchema(description, amount) == description # "" /\ amount > 0

(***************************************************************************)
(* updateTransaction with the amended transaction stamped anew.            *)
(***************************************************************************)
updateTransaction_restamped(transactionId, description, amount) ==
  /\ transactions' = setValue("transactions", transactions,
         [j \in 1..Len(transactions) |->
            IF transactions[j].id = transactionId
            THEN [transactions[j] EXCEPT !.description = Some(description),
                                         !.amount = amount,
                                         !.timestamp = now]
            ELSE transactions[j]])
  /\ last' = Call("updateTransaction", "Transaction updated.")
  /\ pre' = NoSnapshot
  /\ UNCHANGED <<customers, fuelStock, fuelPrices, ids, now>>

updateTransaction(transactionId, description, amount) ==
  /\ transactions' = setValue("transactions", transactions,
         [j \in 1..Len(transactions) |->
            IF transactions[j].id = transactionId
            THEN [transactions[j] EXCEPT !.description = Some(description),
                                         !.amount = amount]
            ELSE transactions[j]])
  /\ last' = Call("updateTransaction", "Transaction updated.")
  /\ pre' = NoSnapshot
  /\ UNCHANGED <<customers, fuelStock, fuelPrices, ids, now>>

handleEditSubmit(i, description, amount) ==
  IF expenseEditSchema(description, amount)
  THEN updateTransaction(transactions[i].id, description, amount)
  ELSE /\ last' = Call("handleSubmit", "ValidationError")
       /\ pre' = NoSnapshot
       /\ UNCHANGED <<stores, ids, now>>

(***************************************************************************)
(* The user's actions on the dashboard.                                    *)
(***************************************************************************)
RecordSale == (\E v \in SaleInputs : SubmitSale(v[1], v[2], v[3], v[4])) /\ Commit

LogExpense == (\E v \in ExpenseInputs : SubmitExpense(v[1], v[2])) /\ Commit

AddStock == (\E v \in StockInputs : onStockSubmit(v[1], v[2])) /\ Commit

SetStock == (\E p \in QtyInputs, d \in QtyInputs : updateStock(p, d)) /\ Commit

SetPrices == (\E v \in PriceInputs : onPriceSubmit(v[1], v[2])) /\ Commit

Repay ==
  /\ \E i \in creditCustomers :
       \E a \in RepaymentAmounts(customers[i].balance) : onRepaymentSubmit(i, a)
  /\ Commit

RenameCustomer ==
  (\E i \in creditCustomers, n \in RenameInputs : onEditSubmit(i, n)) /\ Commit

DeleteCustomer == (\E i \in creditCustomers : deleteCustomer(customers[i].id)) /\ Commit

DeleteTransaction ==
  (\E i \in 1..Len(transactions) : deleteTransaction(transactions[i].id)) /\ Commit

EditExpense ==
  /\ \E i \in 1..Len(transactions), v \in EditInputs :
       /\ transactions[i].type = "expense"
       /\ handleEditSubmit(i, v[1], v[2])
  /\ Commit

Next ==
  \/ RecordSale
  \/ LogExpense
  \/ AddStock
  \/ SetStock
  \/ SetPrices
  \/ Repay
  \/ RenameCustomer
  \/ DeleteCustomer
  \/ DeleteTransaction
  \/ EditExpense

Spec == Init /\ [][Next]_vars

(***************************************************************************)
(* The Dashboard's operations called with any argument, the checks of      *)
(* their callers left out: recordRepayment with any customer id and        *)
(* amount, deleteTransaction with any id, updateTransaction with the id    *)
(* of a transaction that is not in the log.                                *)
(***************************************************************************)
RepaymentCallAmounts ==
  {5000} \cup {customers[i].balance + 1 : i \in 1..Len(customers)}

RepaymentCall ==
  (\E id \in 1..nextCustomerId, a \in RepaymentCallAmounts : recordRepayment(id, a))
    /\ Commit

DeleteCall == (\E id \in 1..MaxTx : deleteTransaction(id)) /\ Commit

EditCall ==
  /\ \E id \in 1..MaxTx, v \in EditInputs :
       /\ findTransaction(id) = 0
       /\ expenseEditSchema(v[1], v[2])
       /\ updateTransaction(id, v[1], v[2])
  /\ Commit

NextEngine == Next \/ RepaymentCall \/ DeleteCall \/ EditCall

SpecEngine == Init /\ [][NextEngine]_vars

(***************************************************************************)
(* The dashboard left open over midnight: the local day changes while no   *)
(* handler runs, and nothing is rendered again.  NextDay is the day's      *)
(* bookkeeping, the operations that record, amend and delete transactions  *)
(* and customers, with the day changing in between.                        *)
(***************************************************************************)
Midnight ==
  /\ todayStart < now
  /\ todayStart' = now
  /\ last' = Call("midnight", "")
  /\ pre' = NoSnapshot
  /\ UNCHANGED <<stores, ids, now, memo, localStorage, failing>>

NextDay ==
  \/ RecordSale
  \/ LogExpense
  \/ AddStock
  \/ Repay
  \/ DeleteCustomer
  \/ DeleteTransaction
  \/ EditExpense
  \/ Midnight

SpecDay == Init /\ [][NextDay]_vars

(***************************************************************************)
(* The dashboard on a browser whose storage may hold anything for a key    *)
(* at the first load and may refuse a write (quota, private mode): sales   *)
(* and stock additions with the writes of some keys failing, and the page  *)
(* loaded again from what localStorage holds.                              *)
(***************************************************************************)
WriteFailures == {{}, {"fuelStock"}, Keys}

FirstLoads ==
  {NothingStored,
   [k \in Keys |-> IF k \in {"fuelPrices", "transactions"} THEN Unreadable ELSE NoItem]}

CommitOrFail == Render /\ Persist /\ failing' \in WriteFailures

StoreSale == (\E v \in SaleInputs : SubmitSale(v[1], v[2], v[3], v[4])) /\ CommitOrFail

StoreStock == (\E v \in StockInputs : onStockSubmit(v[1], v[2])) /\ CommitOrFail

Reload ==
  /\ transactions' = documents(localStorage)["transactions"]
  /\ customers' = documents(localStorage)["customers"]
  /\ fuelStock' = documents(localStorage)["fuelStock"]
  /\ fuelPrices' = documents(localStorage)["fuelPrices"]
  /\ memo' = aggregates(documents(localStorage)["transactions"],
                        documents(localStorage)["customers"], todayStart)
  /\ last' = Call("init", "")
  /\ pre' = NoSnapshot
  /\ failing' \in WriteFailures
  /\ UNCHANGED <<localStorage, ids, now, todayStart>>

InitStorage ==
  /\ \E ls \in FirstLoads : Mount(ls)
  /\ failing \in WriteFailures

NextStorage == StoreSale \/ StoreStock \/ Reload

SpecStorage == InitStorage /\ [][NextStorage]_vars

(***************************************************************************)
(* The credit book of a station with fuel in its tanks: the dashboard      *)
(* mounted on a stored stock of one litre of petrol for each transaction   *)
(* the log will hold and a stored empty log, the state left by a stock     *)
(* update followed by the deletion of its logged adjustment.  The actions  *)
(* are the sales and the operations of the credit table and the log.       *)
(***************************************************************************)
StockedTanks ==
  [k \in Keys |->
     CASE k = "fuelStock" ->
            Json([f \in FuelTypes |-> IF f = "petrol" THEN MaxTx ELSE 0])
       [] k = "transactions" -> Json(<<>>)
       [] OTHER -> NoItem]

InitCredit == Mount(StockedTanks) /\ failing = {}

NextCredit ==
  \/ RecordSale
  \/ Repay
  \/ RenameCustomer
  \/ DeleteCustomer
  \/ DeleteTransaction

SpecCredit == InitCredit /\ [][NextCredit]_vars

(***************************************************************************)
(*                              The claims                                 *)
(***************************************************************************)

(***************************************************************************)
(* What the log says about the stock and the balances.                     *)
(***************************************************************************)
signedDelta(t, ft) ==
  IF t.fuelType = Some(ft) /\ t.quantity # None
  THEN CASE t.type = "sale" -> 0 - t.quantity[1]
         [] t.type = "stock" -> t.quantity[1]
         [] OTHER -> 0
  ELSE 0

loggedStock(ft) ==
  InitialStock[ft] + SumSeq([j \in 1..Len(transactions) |-> signedDelta(transactions[j], ft)])

creditDelta(t, customerId) ==
  IF t.customerId = Some(customerId)
  THEN CASE t.type = "sale" /\ t.isCredit -> t.amount
         [] t.type = "repayment" -> 0 - t.amount
         [] OTHER -> 0
  ELSE 0

loggedBalance(customerId) ==
  SumSeq([j \in 1..Len(transactions) |-> creditDelta(transactions[j], customerId)])

\* C1: stock conservation: for each fuel type the stock level is the initial
\* stock plus the signed quantities of the sale and stock transactions of
\* that fuel type that are in the log.
C1_StockConservation == \A ft \in FuelTypes : fuelStock[ft] = loggedStock(ft)

\* C2: credit balance conservation: each customer's balance is the sum of
\* the amounts of the credit sales in the log that carry its id minus the
\* sum of the amounts of the repayments in the log that carry its id.
C2_CreditConservation ==
  \A i \in 1..Len(customers) : customers[i].balance = loggedBalance(customers[i].id)

\* A customer who still owes money, with a credit sale and a repayment of
\* that customer in the log.
C2_Witness ==
  \E i \in 1..Len(customers) :
    /\ customers[i].balance > 0
    /\ \E j \in 1..Len(transactions) :
         /\ transactions[j].type = "repayment"
         /\ transactions[j].customerId = Some(customers[i].id)
    /\ \E j \in 1..Len(transactions) :
         /\ transactions[j].type = "sale"
         /\ transactions[j].customerId = Some(customers[i].id)

\* C3: delete is a true inverse: once the transaction an operation created
\* has been deleted right after that operation, the fuel stock and the
\* customers are what they were before the operation.
C3_DeleteIsTrueInverse ==
  pre.undone => (fuelStock = pre.stock /\ customers = pre.customers)

\* C7: the stock level of every fuel type is non-negative in every
\* reachable state.
C7_StockNonNegative == \A ft \in FuelTypes : fuelStock[ft] >= 0

\* C8: with every repayment recorded behind the check of its amount against
\* the balance, no customer's balance is negative in any reachable state.
C8_BalanceNonNegative == \A i \in 1..Len(customers) : customers[i].balance >= 0

headIs(type) == transactions # <<>> /\ Head(transactions).type = type

\* C4: no negative stock from a valid sale: every sale attempt that passes
\* the form's validation either lowers the stock of its fuel type by exactly
\* the quantity and logs a sale transaction, the quantity being at most the
\* stock, or fails with the insufficient-stock error, the quantity being
\* more than the stock; a sale of all the stock succeeds and leaves 0.
C4_SaleOutcome(ft, q) ==
  \/ /\ q <= fuelStock[ft]
     /\ fuelStock'[ft] = fuelStock[ft] - q
     /\ fuelStock'[ft] >= 0
     /\ Len(transactions') = Len(transactions) + 1
     /\ Head(transactions').type = "sale"
     /\ Head(transactions').fuelType = Some(ft)
     /\ Head(transactions').quantity = Some(q)
     /\ last'.msg = "Sale Recorded"
  \/ /\ q > fuelStock[ft]
     /\ fuelStock' = fuelStock
     /\ transactions' = transactions
     /\ last'.msg = "Not enough stock available."

C4_NoNegativeStockFromSale ==
  [][\A v \in SaleInputs :
       (saleSchema(v[1], v[2], v[3], v[4]) /\ SubmitSale(v[1], v[2], v[3], v[4]))
         => C4_SaleOutcome(v[1], v[2])]_vars

\* A sale of all the stock of its fuel type has just been recorded.
C4_Witness ==
  /\ last = Call("onSaleSubmit", "Sale Recorded")
  /\ headIs("sale")
  /\ fuelStock[Head(transactions).fuelType[1]] = 0

\* C5: repayment guard: recordRepayment(customerId, amount) with an amount
\* above the customer's balance fails with RepaymentExceedsBalance, leaves
\* the balance unchanged and appends no repayment transaction.
C5_RepaymentGuard ==
  [][\A i \in 1..Len(customers), a \in RepaymentCallAmounts :
       (a > customers[i].balance /\ recordRepayment(customers[i].id, a))
         => /\ customers' = customers
            /\ transactions' = transactions
            /\ last'.msg = "RepaymentExceedsBalance"]_vars

\* C6: a sale rejected for insufficient stock aborts before any mutation:
\* the stock, the prices, the customers and the log are what they were, and
\* no customer is created for a rejected credit sale.
C6_RejectedSaleMutatesNothing ==
  [][/\ \A v \in SaleInputs :
          (/\ saleSchema(v[1], v[2], v[3], v[4])
           /\ fuelStock[v[1]] < v[2]
           /\ SubmitSale(v[1], v[2], v[3], v[4]))
            => /\ last'.msg = "Not enough stock available."
               /\ UNCHANGED <<fuelStock, fuelPrices, customers, transactions>>
     /\ last'.msg = "Not enough stock available."
          => UNCHANGED <<fuelStock, fuelPrices, customers, transactions>>]_vars

\* A sale has just been rejected for a fuel type that is out of stock, with
\* customers and transactions on record.
C6_Witness ==
  /\ last = Call("onSaleSubmit", "Not enough stock available.")
  /\ customers # <<>>
  /\ transactions # <<>>
  /\ \E ft \in FuelTypes : fuelStock[ft] = 0

\* C9: credit sale merge: a successful credit sale under a name credits the
\* sale amount to exactly one customer: the first customer whose name equals
\* it ignoring case (the number of customers unchanged), or else one new
\* customer of that name whose balance is the amount; the logged sale
\* carries the credited customer's id.
C9_Merged(ft, q, name) ==
  LET amount == q * fuelPrices[ft]
      M == {i \in 1..Len(customers) :
              toLowerCase(customers[i].name) = toLowerCase(name)}
      n == Len(customers)
  IN  IF M # {}
      THEN LET i == Min(M)
           IN  /\ Len(customers') = n
               /\ customers'[i] = [customers[i] EXCEPT !.balance = @ + amount]
               /\ \A j \in (1..n) \ {i} : customers'[j] = customers[j]
               /\ Head(transactions').customerId = Some(customers[i].id)
      ELSE /\ Len(customers') = n + 1
           /\ \A j \in 1..n : customers'[j] = customers[j]
           /\ customers'[n + 1].name = name
           /\ customers'[n + 1].balance = amount
           /\ \A j \in 1..n : customers[j].id # customers'[n + 1].id
           /\ Head(transactions').customerId = Some(customers'[n + 1].id)

C10_SameButLink(t, u) ==
  /\ u.id = t.id
  /\ u.type = t.type
  /\ u.amount = t.amount
  /\ u.quantity = t.quantity
  /\ u.fuelType = t.fuelType
  /\ u.timestamp = t.timestamp
  /\ u.isCredit = t.isCredit
  /\ u.description = t.description

C10_SoftDeleted(i) ==
  LET id == customers[i].id
      n == Len(customers)
  IN  /\ Len(customers') = n - 1
      /\ \A j \in 1..(n - 1) : customers'[j] = customers[IF j < i THEN j ELSE j + 1]
      /\ Len(transactions') = Len(transactions)
      /\ \A j \in 1..Len(transactions) :
           /\ C10_SameButLink(transactions[j], transactions'[j])
           /\ transactions'[j].customerId # Some(id)
           /\ transactions[j].customerId = Some(id)
                => /\ transactions'[j].customerId = None
                   /\ transactions'[j].customerName = None
           /\ transactions[j].customerId # Some(id)
                => transactions'[j] = transactions[j]
      /\ UNCHANGED <<fuelStock, fuelPrices>>

C10_DeleteCustomerIsSoft ==
  [][\A i \in 1..Len(customers) :
       deleteCustomer(customers[i].id) => C10_SoftDeleted(i)]_vars

\* A customer has just been deleted whose credit sale and repayment stay in
\* the log, while another customer remains.
C10_Witness ==
  /\ last.op = "deleteCustomer"
  /\ \E j \in 1..Len(transactions) :
       /\ transactions[j].type = "sale"
       /\ transactions[j].isCredit
       /\ transactions[j].customerId = None
       /\ transactions[j].customerName = None
  /\ \E j \in 1..Len(transactions) :
       /\ transactions[j].type = "repayment"
       /\ transactions[j].customerId = None

\* C11: renameCustomer sets the name of the customer of the given id to the
\* new name and the customerName of every transaction carrying that id to
\* the new name, and changes nothing else: the balances, the other
\* customers, the stock, the prices, the number and order of the
\* transactions and the transactions of other customers are what they were.
C11_Renamed(i, newName) ==
  LET id == customers[i].id
  IN  /\ Len(customers') = Len(customers)
      /\ customers'[i] = [customers[i] EXCEPT !.name = newName]
      /\ \A j \in (1..Len(customers)) \ {i} : customers'[j] = customers[j]
      /\ Len(transactions') = Len(transactions)
      /\ \A j \in 1..Len(transactions) :
           transactions'[j] =
             IF transactions[j].customerId = Some(id)
             THEN [transactions[j] EXCEPT !.customerName = Some(newName)]
             ELSE transactions[j]
      /\ UNCHANGED <<fuelStock, fuelPrices>>

C11_RenameCustomerFrame ==
  [][\A i \in 1..Len(customers), n \in RenameInputs :
       (customerNameSchema(n) /\ updateCustomerName(customers[i].id, n))
         => C11_Renamed(i, n)]_vars

\* A customer has just been renamed whose transaction in the log carries
\* the new name, while another customer and a transaction of no customer
\* are on record.
C11_Witness ==
  /\ last.op = "updateCustomerName"
  /\ Len(customers) >= 2
  /\ \E i \in 1..Len(customers), j \in 1..Len(transactions) :
       /\ customers[i].name = "ali"
       /\ transactions[j].customerId = Some(customers[i].id)
       /\ transactions[j].customerName = Some("ali")
  /\ \E j \in 1..Len(transactions) : transactions[j].customerId = None

\* C12: netRevenue is totalSales - todaysCreditSales - totalExpenses, which is
\* the sum of the amounts of the day's sales that are not on credit minus the
\* sum of the amounts of the day's expenses, the day being the one the
\* totals were computed for; credit sales, repayments and stock
\* transactions contribute nothing, and recording a repayment within the
\* day leaves totalSales, totalExpenses and netRevenue unchanged.
C12_Contribution(t, start) ==
  IF t.timestamp >= start
  THEN CASE t.type = "sale" /\ ~t.isCredit -> t.amount
         [] t.type = "expense" -> 0 - t.amount
         [] OTHER -> 0
  ELSE 0

C12_CashSalesLessExpenses(start) ==
  SumSeq([j \in 1..Len(transactions) |-> C12_Contribution(transactions[j], start)])

C12_Net ==
  /\ memo.netRevenue = memo.totalSales - memo.todaysCreditSales - memo.totalExpenses
  /\ memo.netRevenue = C12_CashSalesLessExpenses(memo.todayStart)

C12_RepaymentKeepsTotals ==
  \A i \in 1..Len(customers) :
    \A a \in RepaymentAmounts(customers[i].balance) :
      (memo.todayStart = todayStart /\ recordRepayment(customers[i].id, a))
        => /\ memo'.totalSales = memo.totalSales
           /\ memo'.totalExpenses = memo.totalExpenses
           /\ memo'.netRevenue = memo.netRevenue

C13_SumOfBalances ==
  memo.creditDue = SumSeq([j \in 1..Len(customers) |-> customers[j].balance])

C13_OnRecord(t) ==
  t.customerId # None /\ \E i \in 1..Len(customers) : customers[i].id = t.customerId[1]

C13_Steps ==
  /\ \A v \in SaleInputs :
       (/\ saleSchema(v[1], v[2], v[3], v[4])
        /\ v[3]
        /\ fuelStock[v[1]] >= v[2]
        /\ SubmitSale(v[1], v[2], v[3], v[4]))
         => memo'.creditDue = memo.creditDue + v[2] * fuelPrices[v[1]]
  /\ \A i \in 1..Len(customers) :
       \A a \in RepaymentAmounts(customers[i].balance) :
         recordRepayment(customers[i].id, a) => memo'.creditDue = memo.creditDue - a
  /\ \A j \in 1..Len(transactions) :
       (C13_OnRecord(transactions[j]) /\ deleteTransaction(transactions[j].id))
         => memo'.creditDue = memo.creditDue +
              (CASE transactions[j].type = "sale" /\ transactions[j].isCredit
                      -> 0 - transactions[j].amount
                 [] transactions[j].type = "repayment" -> transactions[j].amount
                 [] OTHER -> 0)
  /\ \A i \in 1..Len(customers) :
       deleteCustomer(customers[i].id) => memo'.creditDue = memo.creditDue - customers[i].balance

C13_CreditDue == []C13_SumOfBalances /\ [][C13_Steps]_vars

\* A credit sale of an earlier day has just been deleted while its customer
\* still owed part of it: creditDue is the negative balance left.
C13_Witness ==
  /\ last = Call("deleteTransaction", "Transaction Deleted")
  /\ todayStart > 0
  /\ memo.creditDue < 0
  /\ \E j \in 1..Len(transactions) :
       /\ transactions[j].type = "repayment"
       /\ C13_OnRecord(transactions[j])

\* C14: operations on a missing id fail explicitly: recordRepayment with the
\* id of no customer reports CustomerNotFound, deleteTransaction and the
\* edit of an expense with the id of no transaction report
\* TransactionNotFound, and each leaves the stock, the customers and the log
\* unchanged.
C14_MissingIdFailsExplicitly ==
  [][/\ \A id \in 1..nextCustomerId, a \in RepaymentCallAmounts :
          (findCustomer(id) = 0 /\ recordRepayment(id, a))
            => /\ last'.msg = "CustomerNotFound"
               /\ UNCHANGED <<fuelStock, customers, transactions>>
     /\ \A id \in 1..MaxTx :
          (findTransaction(id) = 0 /\ deleteTransaction(id))
            => /\ last'.msg = "TransactionNotFound"
               /\ UNCHANGED <<fuelStock, customers, transactions>>
     /\ \A id \in 1..MaxTx, v \in EditInputs :
          (findTransaction(id) = 0 /\ updateTransaction(id, v[1], v[2]))
            => /\ last'.msg = "TransactionNotFound"
               /\ UNCHANGED <<fuelStock, customers, transactions>>]_vars

\* C15: a validation error causes no state change: a sale with no fuel
\* type, a quantity that is not positive or, on credit, an empty or blank
\* customer name; an expense, new or edited, with an empty description or
\* an amount that is not positive; a repayment of an amount that is not
\* positive; a price update with a price that is not positive: each is
\* rejected with the stock, the prices, the customers and the log as before.
C15_BadSale(v) == v[1] \notin FuelTypes \/ v[2] <= 0 \/ (v[3] /\ v[4] \in {"", " "})

C15_BadExpense(v) == v[1] = "" \/ v[2] <= 0

C15_BadPrices(v) == v[1] <= 0 \/ v[2] <= 0

C15_Rejected == last'.msg = "ValidationError" /\ UNCHANGED stores

C15_ValidationErrorsMutateNothing ==
  [][/\ \A v \in SaleInputs :
          (C15_BadSale(v) /\ SubmitSale(v[1], v[2], v[3], v[4])) => C15_Rejected
     /\ \A v \in ExpenseInputs :
          (C15_BadExpense(v) /\ SubmitExpense(v[1], v[2])) => C15_Rejected
     /\ \A i \in 1..Len(transactions), v \in EditInputs :
          (C15_BadExpense(v) /\ handleEditSubmit(i, v[1], v[2])) => C15_Rejected
     /\ \A i \in 1..Len(customers) :
          \A a \in RepaymentAmounts(customers[i].balance) :
            (a <= 0 /\ onRepaymentSubmit(i, a)) => C15_Rejected
     /\ \A v \in PriceInputs :
          (C15_BadPrices(v) /\ onPriceSubmit(v[1], v[2])) => C15_Rejected
     /\ last'.msg = "ValidationError" => UNCHANGED stores]_vars

\* An input has just been rejected by its form while fuel is in stock and
\* a customer with a balance and a sale are on record.
C15_Witness ==
  /\ last = Call("handleSubmit", "ValidationError")
  /\ \E ft \in FuelTypes : fuelStock[ft] > 0
  /\ \E i \in 1..Len(customers) : customers[i].balance > 0
  /\ headIs("sale")

\* C16: idempotent aggregation: computed again with the transactions, the
\* customers and the day as they were, totalSales, totalExpenses, creditDue
\* and netRevenue are what they were, whatever else has changed in between,
\* and the values held by the dashboard are unchanged.
C16_Aggregates == aggregates(transactions, customers, todayStart)

C19_Logged(ft, newValue) ==
  \E j \in 1..Len(transactions') :
    /\ transactions'[j].type = "stock"
    /\ transactions'[j].fuelType = Some(ft)
    /\ transactions'[j].quantity = Some(newValue - fuelStock[ft])
    /\ \A k \in 1..Len(transactions) : transactions[k].id # transactions'[j].id

C19_Changed(p, d) ==
  (IF p # fuelStock["petrol"] THEN 1 ELSE 0) + (IF d # fuelStock["diesel"] THEN 1 ELSE 0)

C19_OneStockTransactionPerChange ==
  [][\A p \in QtyInputs, d \in QtyInputs :
       updateStock(p, d)
         => /\ fuelStock'["petrol"] = p
            /\ fuelStock'["diesel"] = d
            /\ Len(transactions') = Len(transactions) + C19_Changed(p, d)
            /\ p # fuelStock["petrol"] => C19_Logged("petrol", p)
            /\ d # fuelStock["diesel"] => C19_Logged("diesel", d)]_vars

\* C20: the deletion of a sale, whatever happened since the sale, raises the
\* stock of the sale's fuel type by the quantity stored in the transaction
\* and, for a credit sale whose customer is on record, lowers that
\* customer's balance by the amount stored in the transaction; the other
\* fuel type's stock, the prices and the other customers are unchanged.
C20_Reversed(t) ==
  /\ fuelStock' = [fuelStock EXCEPT ![t.fuelType[1]] = @ + t.quantity[1]]
  /\ fuelPrices' = fuelPrices
  /\ Len(customers') = Len(customers)
  /\ \A i \in 1..Len(customers) :
       customers'[i] =
         IF t.isCredit /\ t.customerId = Some(customers[i].id)
         THEN [customers[i] EXCEPT !.balance = @ - t.amount]
         ELSE customers[i]

C20_SaleDeletionReversesStoredValues ==
  [][\A j \in 1..Len(transactions) :
       (transactions[j].type = "sale" /\ deleteTransaction(transactions[j].id))
         => C20_Reversed(transactions[j])]_vars

\* The one credit sale made has just been deleted after the prices were
\* changed: the litre is back in stock and the customer owes nothing.
C20_Witness ==
  /\ last = Call("deleteTransaction", "Transaction Deleted")
  /\ fuelPrices # InitialPrices
  /\ nextTxId = 3
  /\ Len(transactions) = 1
  /\ \E ft \in FuelTypes : fuelStock[ft] = 1
  /\ Len(customers) = 1
  /\ customers[1].balance = 0

\* C17: on a load with no item, or with an unreadable item, under a key,
\* the document of that key is its default (stock 0 and 0, prices 102.50
\* and 95.80, no transactions, no customers) whatever is stored under the
\* other keys, and a readable item is loaded as stored; with nothing stored
\* at all the initial state is the four defaults.
C17_Default(k) ==
  CASE k = "transactions" -> <<>>
    [] k = "customers" -> <<>>
    [] k = "fuelStock" -> [f \in FuelTypes |-> 0]
    [] k = "fuelPrices" ->
         [f \in FuelTypes |->
            IF f = "petrol" THEN DefaultPetrolPrice ELSE DefaultDieselPrice]

C17_FirstLoadDefaults ==
  last.op = "init" =>
    \A k \in Keys :
      StoreOf(k) = IF Len(localStorage[k]) = 2 THEN localStorage[k][2] ELSE C17_Default(k)

\* The page has just been loaded with an unreadable item for the prices, no
\* item for the customers and a stored stock that is not the default.
C17_Witness ==
  /\ last.op = "init"
  /\ Len(localStorage["fuelPrices"]) = 1
  /\ Len(localStorage["customers"]) = 0
  /\ Len(localStorage["fuelStock"]) = 2
  /\ fuelStock # InitialStock
  /\ fuelPrices = InitialPrices
  /\ customers = <<>>

\* C18: a failed write to the durable store neither rolls back nor blocks
\* the operation: a sale or a stock addition during which the write of a
\* key throws still gives every store its new value, appends its
\* transaction and reports success; the item of the failing key is what it
\* was, and the keys whose write succeeds hold the new values.
C18_SaleApplied(v) ==
  /\ fuelStock' = [fuelStock EXCEPT ![v[1]] = @ - v[2]]
  /\ Len(transactions') = Len(transactions) + 1
  /\ Head(transactions').type = "sale"
  /\ v[3] => creditDue(customers') = creditDue(customers) + v[2] * fuelPrices[v[1]]
  /\ last'.msg = "Sale Recorded"

C18_StockApplied(v) ==
  /\ fuelStock' = [fuelStock EXCEPT ![v[1]] = @ + v[2]]
  /\ Len(transactions') = Len(transactions) + 1
  /\ Head(transactions').type = "stock"
  /\ last'.msg = "New stock has been added."

C18_FailedWriteDoesNotRollBack ==
  [][/\ \A v \in SaleInputs :
          (/\ saleSchema(v[1], v[2], v[3], v[4])
           /\ fuelStock[v[1]] >= v[2]
           /\ SubmitSale(v[1], v[2], v[3], v[4]))
            => C18_SaleApplied(v)
     /\ \A v \in StockInputs :
          (stockSchema(v[1], v[2]) /\ onStockSubmit(v[1], v[2])) => C18_StockApplied(v)
     /\ \A k \in failing : localStorage'[k] = localStorage[k]
     /\ last'.op # "init" =>
          \A k \in Keys \ failing :
            NewStoreOf(k) # StoreOf(k) => localStorage'[k] = <<"json", NewStoreOf(k)>>]_vars

\* A sale has just been recorded while the write of the stock failed: the
\* log in localStorage is the log of the dashboard, the stock in
\* localStorage is not its stock.
C18_Witness ==
  /\ last = Call("onSaleSubmit", "Sale Recorded")
  /\ localStorage["transactions"] = <<"json", transactions>>
  /\ Len(localStorage["fuelStock"]) = 2
  /\ localStorage["fuelStock"][2] # fuelStock

\* C21: expense transactions never touch the stock or the credit: logging an
\* expense, amending an expense and deleting an expense each leave the
\* stock, the prices and every customer unchanged; the log gets the one new
\* expense at its head, or the one expense amended in place (same id,
\* timestamp and position, the rest of the log as it was), or loses that
\* one expense; a rejected expense or amendment changes nothing.
C21_Frame == fuelStock' = fuelStock /\ fuelPrices' = fuelPrices /\ customers' = customers

C21_Without(i) ==
  [j \in 1..(Len(transactions) - 1) |->
     IF j < i THEN transactions[j] ELSE transactions[j + 1]]

C21_Logged(description, amount) ==
  /\ Tail(transactions') = transactions
  /\ Head(transactions').type = "expense"
  /\ Head(transactions').amount = amount
  /\ Head(transactions').description = Some(description)
  /\ Head(transactions').customerId = None
  /\ Head(transactions').fuelType = None

C21_Amended(i, description, amount) ==
  /\ Len(transactions') = Len(transactions)
  /\ \A j \in (1..Len(transactions)) \ {i} : transactions'[j] = transactions[j]
  /\ transactions'[i] = [transactions[i] EXCEPT !.description = Some(description),
                                                !.amount = amount]

C21_ExpensesTouchOnlyTheLog ==
  [][/\ \A v \in ExpenseInputs :
          SubmitExpense(v[1], v[2])
            => /\ C21_Frame
               /\ IF v[1] # "" /\ v[2] > 0
                  THEN C21_Logged(v[1], v[2])
                  ELSE transactions' = transactions
     /\ \A i \in 1..Len(transactions) :
          transactions[i].type = "expense"
            => /\ \A v \in EditInputs :
                    handleEditSubmit(i, v[1], v[2])
                      => /\ C21_Frame
                         /\ IF v[1] # "" /\ v[2] > 0
                            THEN C21_Amended(i, v[1], v[2])
                            ELSE transactions' = transactions
               /\ deleteTransaction(transactions[i].id)
                    => C21_Frame /\ transactions' = C21_Without(i)]_vars

\* An expense has just been amended in a log that holds a stock addition
\* and a credit sale as well, with fuel in stock and a customer in debt.
C21_Witness ==
  /\ last = Call("updateTransaction", "Transaction updated.")
  /\ \E j \in 1..Len(transactions) :
       /\ transactions[j].type = "expense"
       /\ transactions[j].description = Some("salary")
  /\ \E j \in 1..Len(transactions) : transactions[j].type = "sale"
  /\ \E i \in 1..Len(customers) : customers[i].balance > 0

\* C22: the log is ordered newest first in every reachable state: the
\* timestamps do not increase from head to tail and no two transactions
\* share an id; whenever the log grows, it grows by one transaction at its
\* head, stamped with the current time and with an id that no transaction
\* of the log carries, the rest of the log being the log as it was; every
\* successful recording operation grows it so; deleteTransaction leaves the
\* other transactions in their order, and updateTransaction,
\* updateCustomerName and deleteCustomer leave every transaction at its
\* position.
C22_Ids(txs) == [j \in 1..Len(txs) |-> txs[j].id]

C22_Ordered ==
  /\ \A j, k \in 1..Len(transactions) :
       j < k => /\ transactions[j].timestamp >= transactions[k].timestamp
                /\ transactions[j].id # transactions[k].id
  /\ \A j \in 1..Len(transactions) : transactions[j].timestamp <= now

C22_Prepended ==
  /\ Len(transactions') = Len(transactions) + 1
  /\ Tail(transactions') = transactions
  /\ Head(transactions').timestamp = now
  /\ \A j \in 1..Len(transactions) : transactions[j].id # Head(transactions').id

C22_OneRemoved ==
  \E i \in 1..Len(transactions) :
    /\ Len(transactions') = Len(transactions) - 1
    /\ \A j \in 1..Len(transactions') :
         transactions'[j] = IF j < i THEN transactions[j] ELSE transactions[j + 1]

C22_Recorded ==
  last'.msg \in {"Sale Recorded", "Expense Logged", "New stock has been added.",
                 "Repayment recorded"}

C22_Step ==
  /\ Len(transactions') > Len(transactions) => C22_Prepended
  /\ C22_Recorded => C22_Prepended
  /\ (last'.op = "updateStock" /\ fuelStock' # fuelStock) => C22_Prepended
  /\ last'.msg = "Transaction Deleted" => C22_OneRemoved
  /\ last'.op \in {"updateTransaction", "updateCustomerName", "deleteCustomer"}
       => C22_Ids(transactions') = C22_Ids(transactions)
          /\ \A j \in 1..Len(transactions) :
               transactions'[j].timestamp = transactions[j].timestamp

C22_NewestFirst == []C22_Ordered /\ [][C22_Step]_vars

\* The middle one of three transactions has just been deleted: the newest
\* and the oldest are left, in that order.
C22_Witness ==
  /\ last = Call("deleteTransaction", "Transaction Deleted")
  /\ Len(transactions) = 2
  /\ transactions[1].id = 3
  /\ transactions[2].id = 1
  /\ transactions[1].timestamp > transactions[2].timestamp

\* C23: the amount of a sale is its quantity times the unit price of its
\* fuel type at the moment of the sale; a price update changes the prices
\* and nothing else: the log with its amounts, the customers, the stock and
\* the day's totals are as they were; and the prices change in no step
\* other than a price update.
C23_Sold(ft, q) ==
  /\ Head(transactions').type = "sale"
  /\ Head(transactions').quantity = Some(q)
  /\ Head(transactions').amount = q * fuelPrices[ft]
  /\ fuelPrices' = fuelPrices

C23_Priced(petrol, diesel) ==
  /\ transactions' = transactions
  /\ customers' = customers
  /\ fuelStock' = fuelStock
  /\ memo' = memo
  /\ IF petrol > 0 /\ diesel > 0
     THEN fuelPrices'["petrol"] = petrol /\ fuelPrices'["diesel"] = diesel
     ELSE fuelPrices' = fuelPrices

C23_PriceAtTimeOfSale ==
  [][/\ \A v \in SaleInputs :
          (/\ saleSchema(v[1], v[2], v[3], v[4])
           /\ fuelStock[v[1]] >= v[2]
           /\ SubmitSale(v[1], v[2], v[3], v[4]))
            => C23_Sold(v[1], v[2])
     /\ \A v \in PriceInputs : onPriceSubmit(v[1], v[2]) => C23_Priced(v[1], v[2])
     /\ fuelPrices' # fuelPrices => last'.op = "updatePrices"]_vars

\* The prices have just been updated with a credit sale at the former price
\* in the log: the sale's amount, the customer's balance and the day's
\* total are at the former price.
C23_Witness ==
  /\ last = Call("updatePrices", "Fuel prices have been updated.")
  /\ \E j \in 1..Len(transactions) :
       /\ transactions[j].type = "sale"
       /\ transactions[j].isCredit
       /\ transactions[j].amount
            # transactions[j].quantity[1] * fuelPrices[transactions[j].fuelType[1]]
       /\ memo.totalSales = transactions[j].amount
       /\ \E i \in 1..Len(customers) : customers[i].balance = transactions[j].amount

\* C24: the unit price of every fuel type is strictly positive in every
\* reachable state: a price update in which a price is not greater than
\* zero is rejected with a validation error and leaves both prices as they
\* were, the valid one of the two included.
C24_Positive == \A ft \in FuelTypes : fuelPrices[ft] > 0

C24_RejectedWhole ==
  \A v \in PriceInputs :
    (~(v[1] > 0 /\ v[2] > 0) /\ onPriceSubmit(v[1], v[2]))
      => /\ fuelPrices' = fuelPrices
         /\ last'.msg = "ValidationError"

C24_PricesStayPositive == []C24_Positive /\ [][C24_RejectedWhole]_vars

\* A form has just been rejected after an update of the prices: the prices
\* are the updated ones, both positive.
C24_Witness ==
  /\ last = Call("handleSubmit", "ValidationError")
  /\ fuelPrices # InitialPrices
  /\ \A ft \in FuelTypes : fuelPrices[ft] > 0
  /\ transactions = <<>>

\* C25: the day's totals count exactly the transactions stamped at or after
\* the start of the current local day: in every state totalSales is the sum
\* of the amounts of the sales of the current day, totalExpenses that of
\* its expenses and netRevenue that of its sales not on credit less its
\* expenses, so that once the day has changed the transactions of earlier
\* days contribute nothing to them; creditDue stays the sum of the balances.
C25_OfToday(t) == t.timestamp >= todayStart

C25_Sum(type, onCredit) ==
  SumSeq([j \in 1..Len(transactions) |->
            IF /\ C25_OfToday(transactions[j])
               /\ transactions[j].type = type
               /\ transactions[j].isCredit \in onCredit
            THEN transactions[j].amount
            ELSE 0])

C25_TotalsAreOfToday ==
  /\ memo.totalSales = C25_Sum("sale", BOOLEAN)
  /\ memo.totalExpenses = C25_Sum("expense", BOOLEAN)
  /\ memo.netRevenue = C25_Sum("sale", {FALSE}) - C25_Sum("expense", BOOLEAN)
  /\ memo.creditDue = SumSeq([i \in 1..Len(customers) |-> customers[i].balance])

\* C26: referential integrity: in every reachable state every transaction
\* that carries a customerId refers to a customer on record; a repayment
\* transaction is created only for a customer on record, a call of
\* recordRepayment with any other id creating none.
C26_OnRecord(customerId, custs) ==
  \E i \in 1..Len(custs) : Some(custs[i].id) = customerId

C26_Linked ==
  \A j \in 1..Len(transactions) :
    transactions[j].customerId # None
      => C26_OnRecord(transactions[j].customerId, customers)

C26_RepaymentOfKnown ==
  /\ (/\ Len(transactions') > Len(transactions)
      /\ Head(transactions').type = "repayment")
       => /\ C26_OnRecord(Head(transactions').customerId, customers)
          /\ C26_OnRecord(Head(transactions').customerId, customers')
  /\ \A id \in 1..nextCustomerId :
       (/\ ~C26_OnRecord(Some(id), customers)
        /\ recordRepayment(id, 5000))
         => transactions' = transactions /\ customers' = customers

C26_ReferentialIntegrity == []C26_Linked /\ [][C26_RepaymentOfKnown]_vars

\* recordRepayment has just been called for a customer that was deleted:
\* no customer is on record, the credit sale is in the log without a
\* customerId, and no repayment was logged.
C26_Witness ==
  /\ last = Call("recordRepayment", "")
  /\ customers = <<>>
  /\ nextCustomerId > 1
  /\ \E j \in 1..Len(transactions) :
       /\ transactions[j].type = "sale"
       /\ transactions[j].isCredit
       /\ transactions[j].customerId = None
  /\ \A j \in 1..Len(transactions) : transactions[j].type # "repayment"

\* C27: the name carried by a transaction stays in sync: in every reachable
\* state every transaction that carries a customerId carries as
\* customerName the current name of the customer of that id, a credit sale
\* merged into a customer under another spelling of the name included.
C27_NameInSync ==
  \A j \in 1..Len(transactions) :
    \A i \in 1..Len(customers) :
      transactions[j].customerId = Some(customers[i].id)
        => transactions[j].customerName = Some(customers[i].name)

\* C28: the effects of a transaction are reversed at most once: after
\* deleteTransaction(id) no transaction of the log carries id, and
\* deleteTransaction with an id that no transaction of the log carries
\* changes nothing, so calling it twice with the same id is the same as
\* calling it once; a transaction enters the log only with an id that was
\* never given out before, so a deleted transaction never reappears.
C28_InLog(id, txs) == \E j \in 1..Len(txs) : txs[j].id = id

C28_GivenOut == \A j \in 1..Len(transactions) : transactions[j].id < nextTxId

C28_Deleted ==
  \A id \in 1..MaxTx :
    deleteTransaction(id)
      => /\ ~C28_InLog(id, transactions')
         /\ ~C28_InLog(id, transactions)
              => /\ UNCHANGED stores
                 /\ memo' = memo
                 /\ localStorage' = localStorage

C28_NeverBack ==
  /\ nextTxId' >= nextTxId
  /\ \A j \in 1..Len(transactions') :
       \/ C28_InLog(transactions'[j].id, transactions)
       \/ transactions'[j].id >= nextTxId

C28_ReversedAtMostOnce == []C28_GivenOut /\ [][C28_Deleted /\ C28_NeverBack]_vars

\* deleteTransaction has just been called again with the id of a credit
\* sale that was deleted before: the litre is back in stock once, the
\* customer's balance is zero and the stock addition is all the log holds.
C28_Witness ==
  /\ last = Call("deleteTransaction", "")
  /\ nextTxId = 3
  /\ Len(transactions) = 1
  /\ Head(transactions).type = "stock"
  /\ fuelStock[Head(transactions).fuelType[1]] = 1
  /\ Len(customers) = 1
  /\ customers[1].balance = 0

\* C29: no two customers on record have names that are equal ignoring case
\* unless a rename made them so: two such customers appear only in a step
\* of updateCustomerName; once they exist, a credit sale under the shared
\* name credits the earliest created of the matching customers, the first
\* of them in the list, and leaves the others as they were.
C29_SameName(c, d) == toLowerCase(c.name) = toLowerCase(d.name)

C29_Distinct(custs) ==
  \A i, j \in 1..Len(custs) : i # j => ~C29_SameName(custs[i], custs[j])

C29_Matching(name) ==
  {i \in 1..Len(customers) : toLowerCase(customers[i].name) = toLowerCase(name)}

C29_EarliestCredited(ft, q, name) ==
  \A i \in C29_Matching(name) :
    IF \A j \in C29_Matching(name) : customers[i].id <= customers[j].id
    THEN /\ \A j \in C29_Matching(name) : i <= j
         /\ customers'[i] = [customers[i] EXCEPT !.balance = @ + q * fuelPrices[ft]]
         /\ Head(transactions').customerId = Some(customers[i].id)
    ELSE customers'[i] = customers[i]

C29_Step ==
  /\ (C29_Distinct(customers) /\ ~C29_Distinct(customers'))
       => last'.op = "updateCustomerName"
  /\ \A v \in SaleInputs :
       (/\ saleSchema(v[1], v[2], v[3], v[4])
        /\ v[3]
        /\ fuelStock[v[1]] >= v[2]
        /\ SubmitSale(v[1], v[2], v[3], v[4]))
         => /\ C29_EarliestCredited(v[1], v[2], v[4])
            /\ C29_Matching(v[4]) # {} => Len(customers') = Len(customers)

C29_DuplicateNamesOnlyByRename == [][C29_Step]_vars

\* A credit sale has just been recorded under a name that two customers
\* share: the first of the two was credited, the second, renamed into the
\* name, owes what it owed.
C29_Witness ==
  /\ last = Call("onSaleSubmit", "Sale Recorded")
  /\ Len(customers) = 2
  /\ C29_SameName(customers[1], customers[2])
  /\ customers[1].id < customers[2].id
  /\ Head(transactions).customerId = Some(customers[1].id)
  /\ customers[1].balance = 2 * Head(transactions).amount
  /\ customers[2].balance = Head(transactions).amount

\* C30: the deletion of a credit sale or of a repayment whose customer was
\* deleted before, the transaction carrying no customerId any more, changes
\* no customer: no balance is adjusted and no customer is put back on
\* record; for a sale the quantity sold returns to the stock of its fuel
\* type, for a repayment the stock is as it was; the prices are as they
\* were and the transaction, and no other, is removed from the log.
C30_Orphaned(t) ==
  /\ t.customerId = None
  /\ \/ t.type = "sale" /\ t.isCredit
     \/ t.type = "repayment"

C30_Removed(i) ==
  /\ Len(transactions') = Len(transactions) - 1
  /\ \A j \in 1..Len(transactions') :
       transactions'[j] = transactions[IF j < i THEN j ELSE j + 1]

C30_StockBack(t) ==
  \A ft \in FuelTypes :
    fuelStock'[ft] = IF t.type = "sale" /\ t.fuelType = Some(ft)
                     THEN fuelStock[ft] + t.quantity[1]
                     ELSE fuelStock[ft]

C30_DeletionAfterCustomerDeleted ==
  [][\A i \in 1..Len(transactions) :
       (C30_Orphaned(transactions[i]) /\ deleteTransaction(transactions[i].id))
         => /\ customers' = customers
            /\ fuelPrices' = fuelPrices
            /\ C30_StockBack(transactions[i])
            /\ C30_Removed(i)]_vars

\* A credit sale has just been deleted after its customer: no customer is
\* on record, the litre sold is back in stock and the stock addition is
\* all the log holds.
C30_Witness ==
  /\ last = Call("deleteTransaction", "Transaction Deleted")
  /\ customers = <<>>
  /\ nextCustomerId = 2
  /\ nextTxId = 3
  /\ Len(transactions) = 1
  /\ Head(transactions).type = "stock"
  /\ fuelStock[Head(transactions).fuelType[1]] = 1

====
